---- MODULE Spec2Model ----
(***************************************************************************)
(* A state-machine model of the in-memory chat service of src/app.py:      *)
(* the identity registry (users), the room store (rooms), the private      *)
(* message collection (private_messages), the per-client session cookie    *)
(* and the HTTP handlers that act on them.  Strings are modelled as        *)
(* sequences of one-character strings so that strip(), lower(), replace()  *)
(* and the alphanumeric filter are computed, not assumed.                  *)
(***************************************************************************)
EXTENDS Integers, Sequences, FiniteSets, TLC

(***************************************************************************)
(* Bounds of the model.                                                    *)
(***************************************************************************)
MaxIds == 2         \* uuid4 values drawn in one run (room + private messages)
MaxNameLen == 2     \* length of the room names fed to the slug derivation
MaxPreload == 55    \* messages preloaded in the read-window specifications

(***************************************************************************)
(* Program constants.                                                      *)
(***************************************************************************)
WindowSize == 50    \* messages[-50:]
SuffixLen == 4      \* provider_id[:4]

\* Browser sessions (cookies) talking to the server.
Clients == {1, 2}

\* Readings of datetime.utcnow(), as isoformat() orders them.
Times == {1}

(***************************************************************************)
(* Strings.                                                                *)
(***************************************************************************)
AsciiUpper ==
  <<"A","B","C","D","E","F","G","H","I","J","K","L","M",
    "N","O","P","Q","R","S","T","U","V","W","X","Y","Z">>

AsciiLower ==
  <<"a","b","c","d","e","f","g","h","i","j","k","l","m",
    "n","o","p","q","r","s","t","u","v","w","x","y","z">>

Digits == {"0","1","2","3","4","5","6","7","8","9"}

\* Greek capital sigma U+03A3, small sigma U+03C3, small final sigma U+03C2.
CapitalSigma == "Sigma"
SmallSigma == "sigma"
FinalSigma == "fsigma"

Range(s) == {s[i] : i \in DOMAIN s}

AsciiLetters == Range(AsciiUpper) \cup Range(AsciiLower)

\* str.isspace() of one character.
IsSpace(c) == c \in {" ", "\t", "\n"}

\* str.isalnum() of one character.
IsAlnum(c) ==
  c \in AsciiLetters \cup Digits \cup {CapitalSigma, SmallSigma, FinalSigma}

\* Unicode property Cased of one character.
IsCased(c) == c \in AsciiLetters \cup {CapitalSigma, SmallSigma, FinalSigma}

\* Lowercase mapping of one character other than capital sigma.
LowerChar(c) ==
  IF \E i \in DOMAIN AsciiUpper : AsciiUpper[i] = c
  THEN AsciiLower[CHOOSE i \in DOMAIN AsciiUpper : AsciiUpper[i] = c]
  ELSE c

\* str.lower() maps capital sigma to final sigma when a cased character
\* precedes it and no cased character follows it, else to small sigma
\* (none of the modelled characters is case-ignorable).
LowerSigma(s, i) ==
  IF /\ i > 1
     /\ IsCased(s[i - 1])
     /\ (i = Len(s) \/ ~IsCased(s[i + 1]))
  THEN FinalSigma
  ELSE SmallSigma

\* str.lower()
Lower(s) ==
  [i \in DOMAIN s |-> IF s[i] = CapitalSigma THEN LowerSigma(s, i)
                      ELSE LowerChar(s[i])]

\* str.replace(old, new) for one-character old and new.
Replace(s, old, new) == [i \in DOMAIN s |-> IF s[i] = old THEN new ELSE s[i]]

RECURSIVE LStrip(_)
LStrip(s) ==
  IF s # <<>> /\ IsSpace(Head(s)) THEN LStrip(Tail(s)) ELSE s

RECURSIVE RStrip(_)
RStrip(s) ==
  IF s # <<>> /\ IsSpace(s[Len(s)]) THEN RStrip(SubSeq(s, 1, Len(s) - 1))
  ELSE s

\* Mutant of Strip: the strip() call forgotten.
StripForgotten(s) == s

\* str.strip()
Strip(s) == RStrip(LStrip(s))

SlugChar(c) == IsAlnum(c) \/ c = "_"

\* create_room: the slug of an (already stripped) room name.
DeriveSlug(room_name) ==
  SelectSeq(Replace(Replace(Lower(room_name), " ", "_"), "-", "_"), SlugChar)

\* Mutant of LastN: s[-n:-1], the window without its newest element.
LastNWithoutNewest(s, n) ==
  IF s = <<>> THEN s
  ELSE IF Len(s) <= n THEN SubSeq(s, 1, Len(s) - 1)
  ELSE SubSeq(s, Len(s) - n + 1, Len(s) - 1)

\* Mutant of LastN: s[:n], the oldest n instead of the newest.
LastNFromFront(s, n) == IF Len(s) <= n THEN s ELSE SubSeq(s, 1, n)

\* s[-n:] for n > 0
LastN(s, n) == IF Len(s) <= n THEN s ELSE SubSeq(s, Len(s) - n + 1, Len(s))

\* s[:n]
Prefix(s, n) == IF Len(s) <= n THEN s ELSE SubSeq(s, 1, n)


(***************************************************************************)
(* Values the environment sends.                                           *)
(***************************************************************************)
general == <<"g","e","n","e","r","a","l">>
random == <<"r","a","n","d","o","m">>
system == <<"s","y","s","t","e","m">>

\* One Google and one GitHub principal: the provider-issued id and the
\* username the callback derives (email.split('@')[0], user_info['login']).
GoogleAccounts == {[id |-> <<"7">>, username |-> <<"a","l">>]}
GithubAccounts == {[id |-> <<"8">>, username |-> <<"b","o">>]}

\* Room names of create_room requests: a blank one and one deriving the
\* slug 'd'.
RoomNames == {<<" ">>, <<"D"," ">>}

\* Room ids of requests: missing, a seeded room, and 'd', which names no
\* room until one is created under it.
RoomIds == {<<>>, general, <<"d">>}

\* Message texts of post and private-message requests.
Texts == {<<>>, <<" ","h">>}

\* Message texts of edit requests.
NewTexts == {<<" ">>, <<"y"," ">>}

\* Recipients of private-message requests.
Recipients == {<<>>, <<" ","b","o">>, <<"z">>}

\* Message ids of requests: 0 is a missing id; the others are uuid4 values,
\* drawn or not.
MessageIds(max) == 0..max

\* What happens to a call of the Telegram API.
SinkOutcomes == {"unconfigured", "ok", "refused", "exception"}

(***************************************************************************)
(* State.                                                                  *)
(***************************************************************************)
VARIABLES
  users,             \* dict username -> identity record
  rooms,             \* dict slug -> [name, messages, created_by]
  room_order,        \* insertion order of the keys of rooms
  private_messages,  \* list of private messages
  session,           \* per client: <<>> or <<username>> ('username' key)
  next_id,           \* the next fresh uuid4 value
  resp,              \* the response to the last request
  after_post,        \* <<>>, or <<response>> of the successful post that was
                     \* the request before the one resp answers
  workers            \* per request thread: where it is in its handler and
                     \* the locals it holds

vars ==
  <<users, rooms, room_order, private_messages, session, next_id, resp,
    after_post, workers>>

core == <<users, rooms, room_order, private_messages>>

NoRequest ==
  [room_id |-> <<>>, message_id |-> 0, message |-> <<>>, recipient |-> <<>>,
   room_name |-> <<>>, new_key |-> <<>>]

\* A response through jsonify / redirect, with the request that caused it.
Response(op, c, user, req, status, error) ==
  [op |-> op, client |-> c, user |-> user, req |-> req, status |-> status,
   error |-> error,
   location |-> "", message |-> <<>>, messages |-> <<>>, room_id |-> <<>>,
   room_name |-> <<>>, rooms |-> <<>>, delivered |-> FALSE,
   sink |-> "none", attempted |-> FALSE]

\* The request threads of the server that are followed step by step.
Workers == {1, 2}

\* A thread that handles no request.
Idle ==
  [pc |-> "idle", op |-> "none", client |-> 0, user |-> <<>>,
   room_id |-> <<>>, message_id |-> 0, i |-> 0, key |-> <<>>,
   name |-> <<>>, provider |-> "", acct_id |-> <<>>, now |-> 0,
   status |-> 0, error |-> ""]

Init ==
  /\ workers = [w \in Workers |-> Idle]
  /\ users = <<>>
  /\ rooms = [s \in {general, random} |->
                [name |-> IF s = general THEN <<"G","e","n","e","r","a","l">>
                          ELSE <<"R","a","n","d","o","m">>,
                 messages |-> <<>>,
                 created_by |-> system]]
  /\ room_order = <<general, random>>
  /\ private_messages = <<>>
  /\ session = [c \in Clients |-> <<>>]
  /\ next_id = 1
  /\ resp = Response("none", 0, <<>>, NoRequest, 0, "")
  /\ after_post = <<>>

\* d[k] = v on a dict
Put(d, k, v) == [x \in DOMAIN d \cup {k} |-> IF x = k THEN v ELSE d[x]]

\* The server takes a request when the previous response has left.
NoResponse == Response("none", 0, <<>>, NoRequest, 0, "")

Begin ==
  /\ resp.op = "none"
  /\ UNCHANGED <<after_post, workers>>

\* The response leaves the server; a successful post is remembered for the
\* request that follows it.
Deliver ==
  /\ resp.op # "none"
  /\ resp' = NoResponse
  /\ after_post' = IF resp.op = "send_message" /\ resp.status = 200
                   THEN <<resp>> ELSE <<>>
  /\ UNCHANGED <<users, rooms, room_order, private_messages, session, next_id,
                 workers>>

(***************************************************************************)
(* login_required and get_current_user.                                    *)
(***************************************************************************)
\* Mutant of LoggedIn: the decorator lets every request through.
LoggedInAlways(c) == TRUE

\* 'username' in session
LoggedIn(c) == session[c] # <<>>

\* Mutant of CurrentUser: the session is read under a key it never has.
CurrentUserWrongKey(c) == <<>>

\* get_current_user(): <<>> for None, else <<username>>
CurrentUser(c) ==
  IF session[c] # <<>> /\ session[c][1] # <<>> /\ session[c][1] \in DOMAIN users
  THEN session[c] ELSE <<>>

\* The redirect of login_required; nothing of the stores changes.
RedirectToLogin(c, op, req) ==
  /\ resp' = [Response(op, c, <<>>, req, 302, "") EXCEPT !.location = "login"]
  /\ UNCHANGED <<users, rooms, room_order, private_messages, session, next_id>>

\* A response that leaves every store and the session as they are.
Answer(r) ==
  /\ resp' = r
  /\ UNCHANGED <<users, rooms, room_order, private_messages, session, next_id>>


(***************************************************************************)
(* Identity registry: the OAuth callbacks.                                 *)
(***************************************************************************)
\* The record a callback stores for a new principal.
NewUser(provider, acct, now) ==
  [provider |-> provider, provider_id |-> acct.id, last_seen |-> now]

\* The key a callback gives a new principal.
NewUsername(acct) ==
  IF acct.username \in DOMAIN users
  THEN acct.username \o <<"_">> \o Prefix(acct.id, SuffixLen)
  ELSE acct.username

\* The body shared by google_callback and github_callback, from the lookup
\* of the principal's record on.
OAuthCallback(c, op, provider, acct, now) ==
  LET existing == {u \in DOMAIN users :
                     /\ users[u].provider = provider
                     /\ users[u].provider_id = acct.id}
  IN
  /\ Begin
  /\ IF \E u \in existing : u # <<>>
     THEN \E u \in existing :
            /\ users' = [users EXCEPT ![u].last_seen = now]
            /\ session' = [session EXCEPT ![c] = <<u>>]
     ELSE /\ users' = Put(users, NewUsername(acct), NewUser(provider, acct, now))
          /\ session' = [session EXCEPT ![c] = <<NewUsername(acct)>>]
  /\ resp' = [Response(op, c, session'[c], NoRequest, 302, "")
                EXCEPT !.location = "index"]
  /\ UNCHANGED <<rooms, room_order, private_messages, next_id>>

GoogleCallback(c, acct, now) ==
  OAuthCallback(c, "google_callback", "google", acct, now)

GithubCallback(c, acct, now) ==
  OAuthCallback(c, "github_callback", "github", acct, now)

(***************************************************************************)
(* Notification sink.                                                      *)
(***************************************************************************)
\* send_telegram_message: the boolean it returns.
SendTelegramMessage(outcome) == outcome = "ok"

\* send_telegram_message: requests.post is called unless a credential is
\* missing.
SinkAttempted(outcome) == outcome # "unconfigured"

\* Mutant of SinkRaises: the try block has no except clause.
SinkRaisesOnException(outcome) == outcome = "exception"

\* send_telegram_message: the except clause catches every Exception of
\* the call, so nothing is raised to the caller.
SinkRaises(outcome) == FALSE

\* logout; the sink is called when the session's user has a record
Logout(c, outcome) ==
  /\ Begin
  /\ IF ~LoggedIn(c) THEN RedirectToLogin(c, "logout", NoRequest)
     ELSE IF CurrentUser(c) # <<>> /\ SinkRaises(outcome)
     THEN Answer([Response("logout", c, session[c], NoRequest, 500,
                           "Exception")
                    EXCEPT !.sink = outcome,
                           !.attempted = SinkAttempted(outcome)])
     ELSE /\ session' = [session EXCEPT ![c] = <<>>]
          /\ resp' = [Response("logout", c, session[c], NoRequest, 302, "")
                        EXCEPT !.location = "login",
                               !.delivered = /\ CurrentUser(c) # <<>>
                                             /\ SendTelegramMessage(outcome),
                               !.sink = IF CurrentUser(c) # <<>>
                                        THEN outcome ELSE "none",
                               !.attempted = /\ CurrentUser(c) # <<>>
                                             /\ SinkAttempted(outcome)]
          /\ UNCHANGED <<users, rooms, room_order, private_messages, next_id>>

(***************************************************************************)
(* Room store.                                                             *)
(***************************************************************************)
\* Mutant of EnsureDefault: the fallback is the other seeded room.
EnsureDefaultRandom(slug) == IF slug \in DOMAIN rooms THEN slug ELSE random

\* The room index falls back to: 'general' when the slug names no room.
EnsureDefault(slug) == IF slug \in DOMAIN rooms THEN slug ELSE general

\* The list index and get_rooms build, in the dict's order.
RoomList ==
  [i \in DOMAIN room_order |->
     [id |-> room_order[i],
      name |-> rooms[room_order[i]].name,
      message_count |-> Len(rooms[room_order[i]].messages)]]

\* index; an absent room argument defaults to 'general'
Index(c, room, given) ==
  /\ Begin
  /\ LET slug == IF given THEN room ELSE general
         req == [NoRequest EXCEPT !.room_id = slug]
     IN IF ~LoggedIn(c) THEN RedirectToLogin(c, "index", req)
        ELSE Answer([Response("index", c, session[c], req, 200, "")
                       EXCEPT !.room_id = EnsureDefault(slug),
                              !.room_name = rooms[EnsureDefault(slug)].name,
                              !.rooms = RoomList])

\* get_messages
GetMessages(c, room_slug) ==
  /\ Begin
  /\ LET req == [NoRequest EXCEPT !.room_id = room_slug]
     IN IF ~LoggedIn(c) THEN RedirectToLogin(c, "get_messages", req)
        ELSE IF room_slug \notin DOMAIN rooms
        THEN Answer(Response("get_messages", c, session[c], req, 404,
                             "Room not found"))
        ELSE Answer([Response("get_messages", c, session[c], req, 200, "")
                       EXCEPT !.messages =
                                LastN(rooms[room_slug].messages, WindowSize),
                              !.room_name = rooms[room_slug].name])

\* get_rooms
GetRooms(c) ==
  /\ Begin
  /\ IF ~LoggedIn(c) THEN RedirectToLogin(c, "get_rooms", NoRequest)
     ELSE Answer([Response("get_rooms", c, session[c], NoRequest, 200, "")
                    EXCEPT !.rooms = RoomList])

\* create_room
CreateRoom(c, raw_name) ==
  /\ Begin
  /\ LET room_name == Strip(raw_name)
         room_slug == DeriveSlug(room_name)
         user == CurrentUser(c)
         req == [NoRequest EXCEPT !.room_name = raw_name]
     IN IF ~LoggedIn(c) THEN RedirectToLogin(c, "create_room", req)
        ELSE IF room_name = <<>>
        THEN Answer(Response("create_room", c, session[c], req, 400,
                             "Room name is required"))
        ELSE IF room_slug \in DOMAIN rooms
        THEN Answer(Response("create_room", c, session[c], req, 400,
                             "Room already exists"))
        ELSE IF user = <<>>
        THEN Answer(Response("create_room", c, session[c], req, 500, "TypeError"))
        ELSE /\ rooms' = Put(rooms, room_slug,
                             [name |-> room_name, messages |-> <<>>,
                              created_by |-> user[1]])
             /\ room_order' = Append(room_order, room_slug)
             /\ resp' = [Response("create_room", c, session[c], req, 200, "")
                           EXCEPT !.room_id = room_slug,
                                  !.room_name = room_name]
             /\ UNCHANGED <<users, private_messages, session, next_id>>


(***************************************************************************)
(* Message ledger operations.                                              *)
(***************************************************************************)
\* The dict send_message builds.
NewMessage(id, username, text, now) ==
  [id |-> id, user_id |-> username, nickname |-> username, message |-> text,
   timestamp |-> now, edited |-> FALSE, edited_at |-> <<>>]

\* Mutant of Matches: the loops compare the id and forget the author.
MatchesAnyAuthor(messages, message_id, username) ==
  {i \in DOMAIN messages : messages[i].id = message_id}

\* The positions of a room's messages the loops of edit_message and
\* delete_message stop at: the id is the requested one and the author is
\* the current user.
Matches(messages, message_id, username) ==
  {i \in DOMAIN messages :
     messages[i].id = message_id /\ messages[i].user_id = username}

\* The positions whose id is the requested one.
IdMatches(messages, message_id) ==
  {i \in DOMAIN messages : messages[i].id = message_id}

\* The first position of a non-empty set of positions.
First(positions) == CHOOSE i \in positions : \A j \in positions : i <= j

\* Mutant of Pop: list.pop() with the index forgotten.
PopLast(messages, i) == SubSeq(messages, 1, Len(messages) - 1)

\* list.pop(i)
Pop(messages, i) ==
  SubSeq(messages, 1, i - 1) \o SubSeq(messages, i + 1, Len(messages))

\* Mutant of Edited: the time of the edit is written to 'timestamp'.
EditedRestamped(message, new_text, now) ==
  [message EXCEPT !.message = new_text, !.edited = TRUE, !.timestamp = now]

\* The three assignments of edit_message to the message it found.
Edited(message, new_text, now) ==
  [message EXCEPT !.message = new_text, !.edited = TRUE, !.edited_at = <<now>>]

\* send_message
SendMessage(c, room_slug, raw_text, now) ==
  /\ Begin
  /\ LET message_text == Strip(raw_text)
         user == CurrentUser(c)
         req == [NoRequest EXCEPT !.room_id = room_slug, !.message = raw_text]
     IN IF ~LoggedIn(c) THEN RedirectToLogin(c, "send_message", req)
        ELSE IF room_slug = <<>> \/ message_text = <<>>
        THEN Answer(Response("send_message", c, session[c], req, 400,
                             "Room ID and message are required"))
        ELSE IF room_slug \notin DOMAIN rooms
        THEN Answer(Response("send_message", c, session[c], req, 404,
                             "Room not found"))
        ELSE IF user = <<>>
        THEN Answer(Response("send_message", c, session[c], req, 500, "TypeError"))
        ELSE LET message == NewMessage(next_id, user[1], message_text, now)
             IN /\ rooms' = [rooms EXCEPT ![room_slug].messages =
                                            Append(@, message)]
                /\ users' = [users EXCEPT ![user[1]].last_seen = now]
                /\ next_id' = next_id + 1
                /\ resp' = [Response("send_message", c, session[c], req, 200, "")
                              EXCEPT !.message = <<message>>]
                /\ UNCHANGED <<room_order, private_messages, session>>

\* edit_message
EditMessage(c, room_slug, message_id, raw_text, now) ==
  /\ Begin
  /\ LET new_text == Strip(raw_text)
         user == CurrentUser(c)
         req == [NoRequest EXCEPT !.room_id = room_slug,
                                  !.message_id = message_id,
                                  !.message = raw_text]
     IN IF ~LoggedIn(c) THEN RedirectToLogin(c, "edit_message", req)
        ELSE IF message_id = 0 \/ new_text = <<>> \/ room_slug = <<>>
        THEN Answer(Response("edit_message", c, session[c], req, 400,
                             "Message ID, new text, and room ID are required"))
        ELSE IF room_slug \notin DOMAIN rooms
        THEN Answer(Response("edit_message", c, session[c], req, 404,
                             "Room not found"))
        ELSE IF user = <<>> /\ IdMatches(rooms[room_slug].messages, message_id) # {}
        THEN Answer(Response("edit_message", c, session[c], req, 500, "TypeError"))
        ELSE IF user = <<>>
                \/ Matches(rooms[room_slug].messages, message_id, user[1]) = {}
        THEN Answer(Response("edit_message", c, session[c], req, 404,
                             "Message not found or not authorized"))
        ELSE LET i == First(Matches(rooms[room_slug].messages, message_id,
                                    user[1]))
                 message == Edited(rooms[room_slug].messages[i], new_text, now)
             IN /\ rooms' = [rooms EXCEPT ![room_slug].messages[i] = message]
                /\ resp' = [Response("edit_message", c, session[c], req, 200, "")
                              EXCEPT !.message = <<message>>]
                /\ UNCHANGED <<users, room_order, private_messages, session,
                               next_id>>

\* delete_message
DeleteMessage(c, room_slug, message_id) ==
  /\ Begin
  /\ LET user == CurrentUser(c)
         req == [NoRequest EXCEPT !.room_id = room_slug,
                                  !.message_id = message_id]
     IN IF ~LoggedIn(c) THEN RedirectToLogin(c, "delete_message", req)
        ELSE IF message_id = 0 \/ room_slug = <<>>
        THEN Answer(Response("delete_message", c, session[c], req, 400,
                             "Message ID and room ID are required"))
        ELSE IF room_slug \notin DOMAIN rooms
        THEN Answer(Response("delete_message", c, session[c], req, 404,
                             "Room not found"))
        ELSE IF user = <<>> /\ IdMatches(rooms[room_slug].messages, message_id) # {}
        THEN Answer(Response("delete_message", c, session[c], req, 500, "TypeError"))
        ELSE IF user = <<>>
                \/ Matches(rooms[room_slug].messages, message_id, user[1]) = {}
        THEN Answer(Response("delete_message", c, session[c], req, 404,
                             "Message not found or not authorized"))
        ELSE LET i == First(Matches(rooms[room_slug].messages, message_id,
                                    user[1]))
             IN /\ rooms' = [rooms EXCEPT ![room_slug].messages = Pop(@, i)]
                /\ resp' = Response("delete_message", c, session[c], req, 200, "")
                /\ UNCHANGED <<users, room_order, private_messages, session,
                               next_id>>

(***************************************************************************)
(* Private message channel.                                                *)
(***************************************************************************)
\* Mutant of NewPrivateMessage: sender and recipient swapped.
NewPrivateMessageSwapped(id, username, recipient_username, text, now) ==
  [id |-> id, from_user_id |-> recipient_username,
   from_nickname |-> recipient_username,
   to_user_id |-> username, to_nickname |-> username,
   message |-> text, timestamp |-> now, is_private |-> TRUE]

\* The dict send_private_message builds.
NewPrivateMessage(id, username, recipient_username, text, now) ==
  [id |-> id, from_user_id |-> username, from_nickname |-> username,
   to_user_id |-> recipient_username, to_nickname |-> recipient_username,
   message |-> text, timestamp |-> now, is_private |-> TRUE]

\* Mutant of AppendPrivate: the message is put in front of the list.
PrependPrivate(store, message) == <<message>> \o store

\* private_messages.append(message)
AppendPrivate(store, message) == Append(store, message)

\* send_private_message
SendPrivateMessage(c, raw_recipient, raw_text, now) ==
  /\ Begin
  /\ LET recipient_username == Strip(raw_recipient)
         message_text == Strip(raw_text)
         user == CurrentUser(c)
         req == [NoRequest EXCEPT !.recipient = raw_recipient,
                                  !.message = raw_text]
     IN IF ~LoggedIn(c) THEN RedirectToLogin(c, "send_private_message", req)
        ELSE IF recipient_username = <<>> \/ message_text = <<>>
        THEN Answer(Response("send_private_message", c, session[c], req, 400,
                             "Recipient and message are required"))
        ELSE IF recipient_username \notin DOMAIN users
        THEN Answer(Response("send_private_message", c, session[c], req, 404,
                             "User not found"))
        ELSE IF user = <<>>
        THEN Answer(Response("send_private_message", c, session[c], req, 500,
                             "TypeError"))
        ELSE LET message == NewPrivateMessage(next_id, user[1],
                                              recipient_username,
                                              message_text, now)
             IN /\ private_messages' = AppendPrivate(private_messages, message)
                /\ next_id' = next_id + 1
                /\ resp' = [Response("send_private_message", c, session[c], req,
                                     200, "")
                              EXCEPT !.message = <<message>>]
                /\ UNCHANGED <<users, rooms, room_order, session>>

\* Mutant of Involving: the filter forgets the recipient side.
InvolvingAsSender(messages, username) ==
  SelectSeq(messages, LAMBDA m : m.from_user_id = username)

\* The private messages a user sent or received, in the list's order.
Involving(messages, username) ==
  SelectSeq(messages,
            LAMBDA m : m.from_user_id = username \/ m.to_user_id = username)

\* One step of list.sort(key=timestamp): x goes behind the elements of the
\* sorted list whose timestamp is not greater (the sort is stable).
RECURSIVE Insert(_, _)
Insert(x, sorted) ==
  IF sorted = <<>> THEN <<x>>
  ELSE IF sorted[Len(sorted)].timestamp <= x.timestamp THEN Append(sorted, x)
  ELSE Append(Insert(x, SubSeq(sorted, 1, Len(sorted) - 1)),
              sorted[Len(sorted)])

\* list.sort(key=lambda x: x['timestamp'])
RECURSIVE SortByTimestamp(_)
SortByTimestamp(messages) ==
  IF messages = <<>> THEN <<>>
  ELSE Insert(messages[Len(messages)],
              SortByTimestamp(SubSeq(messages, 1, Len(messages) - 1)))

\* get_private_messages
GetPrivateMessages(c) ==
  /\ Begin
  /\ LET user == CurrentUser(c)
     IN IF ~LoggedIn(c)
        THEN RedirectToLogin(c, "get_private_messages", NoRequest)
        ELSE IF user = <<>> /\ private_messages # <<>>
        THEN Answer(Response("get_private_messages", c, session[c], NoRequest,
                             500, "TypeError"))
        ELSE IF user = <<>>
        THEN Answer(Response("get_private_messages", c, session[c], NoRequest,
                             200, ""))
        ELSE Answer([Response("get_private_messages", c, session[c], NoRequest,
                              200, "")
                       EXCEPT !.messages =
                         LastN(SortByTimestamp(
                                 Involving(private_messages, user[1])),
                               WindowSize)])

(***************************************************************************)
(* The service: every operation, on small inputs.                          *)
(***************************************************************************)
\* The cap that keeps the run finite: the uuid4 values drawn.
IdsLeft(max) == next_id' <= max + 1

NextIdentity ==
  \/ \E a \in GoogleAccounts, now \in Times : GoogleCallback(1, a, now)
  \/ \E a \in GithubAccounts, now \in Times : GithubCallback(2, a, now)
  \/ \E c \in Clients, o \in SinkOutcomes : Logout(c, o)

NextRooms ==
  \/ \E c \in Clients, r \in RoomIds, given \in BOOLEAN : Index(c, r, given)
  \/ \E c \in Clients : GetRooms(c)
  \/ \E c \in Clients, n \in RoomNames : CreateRoom(c, n)

NextLedger ==
  \/ \E c \in Clients, r \in RoomIds \ {<<>>} : GetMessages(c, r)
  \/ \E c \in Clients, r \in RoomIds, t \in Texts, now \in Times :
       SendMessage(c, r, t, now) /\ IdsLeft(MaxIds)
  \/ \E c \in Clients, r \in RoomIds, m \in MessageIds(MaxIds),
        t \in NewTexts, now \in Times : EditMessage(c, r, m, t, now)
  \/ \E c \in Clients, r \in RoomIds, m \in MessageIds(MaxIds) :
       DeleteMessage(c, r, m)

NextPrivate ==
  \/ \E c \in Clients, u \in Recipients, t \in Texts, now \in Times :
       SendPrivateMessage(c, u, t, now) /\ IdsLeft(MaxIds)
  \/ \E c \in Clients : GetPrivateMessages(c)

Next == NextIdentity \/ NextRooms \/ NextLedger \/ NextPrivate \/ Deliver

Spec == Init /\ [][Next]_vars


(***************************************************************************)
(* The ledger alone, with more messages: two clients, one principal each,  *)
(* posting to, editing, deleting from and reading the seeded rooms.        *)
(***************************************************************************)
MaxLedgerIds == 3   \* uuid4 values drawn in one run of the ledger

LedgerRoomIds == {<<>>, general, random, <<"z">>}

NextLedgerOnly ==
  \/ \E a \in GoogleAccounts, now \in Times : GoogleCallback(1, a, now)
  \/ \E a \in GithubAccounts, now \in Times : GithubCallback(2, a, now)
  \/ \E c \in Clients, r \in LedgerRoomIds \ {<<>>} : GetMessages(c, r)
  \/ \E c \in Clients, r \in LedgerRoomIds, t \in Texts, now \in Times :
       SendMessage(c, r, t, now) /\ IdsLeft(MaxLedgerIds)
  \/ \E c \in Clients, r \in LedgerRoomIds, m \in MessageIds(MaxLedgerIds),
        t \in NewTexts, now \in Times : EditMessage(c, r, m, t, now)
  \/ \E c \in Clients, r \in LedgerRoomIds, m \in MessageIds(MaxLedgerIds) :
       DeleteMessage(c, r, m)
  \/ Deliver

SpecLedger == Init /\ [][NextLedgerOnly]_vars

(***************************************************************************)
(* Room creation alone, over every room name up to a length: one client    *)
(* logs in and sends create_room requests; one room is created.            *)
(***************************************************************************)
NameAlphabet == {"A", "a", CapitalSigma, SmallSigma, " ", "-", "_", "!"}

Names == UNION {[1..k -> NameAlphabet] : k \in 0..MaxNameLen}

NextSlug ==
  \/ \E a \in GoogleAccounts, now \in Times : GoogleCallback(1, a, now)
  \/ \E n \in Names : CreateRoom(1, n) /\ Len(room_order') <= 3
  \/ Deliver

SpecSlug == Init /\ [][NextSlug]_vars

(***************************************************************************)
(* Request threads.  app.run serves each request on a thread of its own    *)
(* and no handler takes a lock, so the steps of two handlers interleave    *)
(* wherever the interpreter can switch threads.  A handler followed step   *)
(* by step keeps its locals in workers[w]; its response is its status and  *)
(* error there.                                                            *)
(***************************************************************************)
WorkerUnchanged == UNCHANGED <<resp, after_post>>

\* The handler of thread w returns the response (status, error).
Done(w, status, error) ==
  workers' = [workers EXCEPT ![w].pc = "done", ![w].status = status,
                             ![w].error = error]

\* The response of thread w has left; the thread is free again.
WorkerReturn(w) ==
  /\ workers[w].pc = "done"
  /\ workers' = [workers EXCEPT ![w] = Idle]
  /\ WorkerUnchanged
  /\ UNCHANGED <<users, rooms, room_order, private_messages, session, next_id>>

\* delete_message up to the start of its loop: the checks, the current
\* user, the room's list and the iterator over it.
WorkerDeleteBegin(w, c, room_slug, message_id) ==
  /\ workers[w].pc = "idle"
  /\ LET call == [Idle EXCEPT !.op = "delete_message", !.client = c,
                              !.user = CurrentUser(c),
                              !.room_id = room_slug,
                              !.message_id = message_id]
     IN workers' =
          [workers EXCEPT ![w] =
             IF ~LoggedIn(c)
             THEN [call EXCEPT !.pc = "done", !.status = 302]
             ELSE IF message_id = 0 \/ room_slug = <<>>
             THEN [call EXCEPT !.pc = "done", !.status = 400,
                     !.error = "Message ID and room ID are required"]
             ELSE IF room_slug \notin DOMAIN rooms
             THEN [call EXCEPT !.pc = "done", !.status = 404,
                               !.error = "Room not found"]
             ELSE [call EXCEPT !.pc = "scan", !.i = 1]]
  /\ WorkerUnchanged
  /\ UNCHANGED <<users, rooms, room_order, private_messages, session, next_id>>

\* One turn of the loop of delete_message: the iterator yields the element
\* at its index, if the list still has one there, and the condition is
\* evaluated on it.
WorkerDeleteScan(w) ==
  /\ workers[w].pc = "scan"
  /\ workers[w].op = "delete_message"
  /\ LET me == workers[w]
         messages == rooms[me.room_id].messages
     IN IF me.i > Len(messages)
        THEN Done(w, 404, "Message not found or not authorized")
        ELSE IF messages[me.i].id # me.message_id
        THEN workers' = [workers EXCEPT ![w].i = me.i + 1]
        ELSE IF me.user = <<>>
        THEN Done(w, 500, "TypeError")
        ELSE IF messages[me.i].user_id = me.user[1]
        THEN workers' = [workers EXCEPT ![w].pc = "pop"]
        ELSE workers' = [workers EXCEPT ![w].i = me.i + 1]
  /\ WorkerUnchanged
  /\ UNCHANGED <<users, rooms, room_order, private_messages, session, next_id>>

\* messages.pop(i) with the index the loop stopped at, and the return.
WorkerDeletePop(w) ==
  /\ workers[w].pc = "pop"
  /\ LET me == workers[w]
         messages == rooms[me.room_id].messages
     IN IF me.i > Len(messages)
        THEN /\ Done(w, 500, "IndexError")
             /\ UNCHANGED rooms
        ELSE /\ rooms' = [rooms EXCEPT ![me.room_id].messages = Pop(@, me.i)]
             /\ Done(w, 200, "")
  /\ WorkerUnchanged
  /\ UNCHANGED <<users, room_order, private_messages, session, next_id>>

\* Two clients log in and post to one room; their delete requests are
\* served by two threads.
NextRoomWorkers ==
  \/ \E a \in GoogleAccounts, now \in Times : GoogleCallback(1, a, now)
  \/ \E a \in GithubAccounts, now \in Times : GithubCallback(2, a, now)
  \/ \E c \in Clients, now \in Times :
       SendMessage(c, general, <<" ","h">>, now) /\ IdsLeft(MaxLedgerIds)
  \/ Deliver
  \/ \E w \in Workers, m \in MessageIds(MaxLedgerIds) :
       WorkerDeleteBegin(w, w, general, m)
  \/ \E w \in Workers : WorkerDeleteScan(w)
  \/ \E w \in Workers : WorkerDeletePop(w)
  \/ \E w \in Workers : WorkerReturn(w)

SpecRoomWorkers == Init /\ [][NextRoomWorkers]_vars

\* An OAuth callback up to the end of its search of users for the record
\* of the principal: key is <<>> or <<the username found>>.
WorkerCallbackLookup(w, c, provider, acct, now) ==
  /\ workers[w].pc = "idle"
  /\ LET existing == {u \in DOMAIN users :
                        /\ users[u].provider = provider
                        /\ users[u].provider_id = acct.id}
         call == [Idle EXCEPT !.op = provider, !.client = c, !.pc = "bind",
                              !.provider = provider, !.acct_id = acct.id,
                              !.name = acct.username, !.now = now]
     IN IF \E u \in existing : u # <<>>
        THEN \E u \in existing :
               workers' = [workers EXCEPT ![w] = [call EXCEPT !.key = <<u>>]]
        ELSE workers' = [workers EXCEPT ![w] = call]
  /\ WorkerUnchanged
  /\ UNCHANGED <<users, rooms, room_order, private_messages, session, next_id>>

\* The rest of the callback: the record found is refreshed, or a record is
\* stored under the username, suffixed when the username is a key of users.
WorkerCallbackBind(w) ==
  /\ workers[w].pc = "bind"
  /\ LET me == workers[w]
         acct == [id |-> me.acct_id, username |-> me.name]
     IN IF me.key # <<>>
        THEN /\ users' = [users EXCEPT ![me.key[1]].last_seen = me.now]
             /\ session' = [session EXCEPT ![me.client] = me.key]
        ELSE /\ users' = Put(users, NewUsername(acct),
                             NewUser(me.provider, acct, me.now))
             /\ session' = [session EXCEPT ![me.client] = <<NewUsername(acct)>>]
  /\ Done(w, 302, "")
  /\ WorkerUnchanged
  /\ UNCHANGED <<rooms, room_order, private_messages, next_id>>

\* Callbacks of the two principals, served by two threads for two clients,
\* with logouts between them.
NextRegistryWorkers ==
  \/ \E w \in Workers, c \in Clients, a \in GoogleAccounts, now \in Times :
       WorkerCallbackLookup(w, c, "google", a, now)
  \/ \E w \in Workers, c \in Clients, a \in GithubAccounts, now \in Times :
       WorkerCallbackLookup(w, c, "github", a, now)
  \/ \E w \in Workers : WorkerCallbackBind(w)
  \/ \E w \in Workers : WorkerReturn(w)
  \/ \E c \in Clients : Logout(c, "unconfigured")
  \/ Deliver

SpecRegistryWorkers == Init /\ [][NextRegistryWorkers]_vars

\* create_room up to its test of the slug against rooms.
WorkerCreateCheck(w, c, raw_name) ==
  /\ workers[w].pc = "idle"
  /\ LET room_name == Strip(raw_name)
         room_slug == DeriveSlug(room_name)
         call == [Idle EXCEPT !.op = "create_room", !.client = c,
                              !.name = room_name, !.key = room_slug]
     IN workers' =
          [workers EXCEPT ![w] =
             IF ~LoggedIn(c)
             THEN [call EXCEPT !.pc = "done", !.status = 302]
             ELSE IF room_name = <<>>
             THEN [call EXCEPT !.pc = "done", !.status = 400,
                               !.error = "Room name is required"]
             ELSE IF room_slug \in DOMAIN rooms
             THEN [call EXCEPT !.pc = "done", !.status = 400,
                               !.error = "Room already exists"]
             ELSE [call EXCEPT !.pc = "write"]]
  /\ WorkerUnchanged
  /\ UNCHANGED <<users, rooms, room_order, private_messages, session, next_id>>

\* The rest of create_room: the current user and the assignment
\* rooms[room_slug] = {...}; a key that is in the dict keeps its place.
WorkerCreateWrite(w) ==
  /\ workers[w].pc = "write"
  /\ LET me == workers[w]
         user == CurrentUser(me.client)
     IN IF user = <<>>
        THEN /\ Done(w, 500, "TypeError")
             /\ UNCHANGED <<rooms, room_order>>
        ELSE /\ rooms' = Put(rooms, me.key,
                             [name |-> me.name, messages |-> <<>>,
                              created_by |-> user[1]])
             /\ room_order' = IF me.key \in DOMAIN rooms THEN room_order
                              ELSE Append(room_order, me.key)
             /\ Done(w, 200, "")
  /\ WorkerUnchanged
  /\ UNCHANGED <<users, private_messages, session, next_id>>

\* Names of the create requests of the threads: two that derive 'd'.
WorkerRoomNames == {<<"D"," ">>, <<"d">>}

\* Two clients log in; their create requests are served by two threads,
\* and they post to the room created.
NextCreateWorkers ==
  \/ \E a \in GoogleAccounts, now \in Times : GoogleCallback(1, a, now)
  \/ \E a \in GithubAccounts, now \in Times : GithubCallback(2, a, now)
  \/ \E c \in Clients, now \in Times :
       SendMessage(c, <<"d">>, <<" ","h">>, now) /\ IdsLeft(MaxIds)
  \/ Deliver
  \/ \E w \in Workers, n \in WorkerRoomNames : WorkerCreateCheck(w, w, n)
  \/ \E w \in Workers : WorkerCreateWrite(w)
  \/ \E w \in Workers : WorkerReturn(w)

SpecCreateWorkers == Init /\ [][NextCreateWorkers]_vars

\* logout up to the call of requests.post in send_telegram_message: the
\* decorator, the current user and the test of the credentials.  configured
\* says whether both credentials are set in the environment of the process.
WorkerLogoutBegin(w, c, configured) ==
  /\ workers[w].pc = "idle"
  /\ LET call == [Idle EXCEPT !.op = "logout", !.client = c,
                              !.user = CurrentUser(c)]
     IN workers' =
          [workers EXCEPT ![w] =
             IF ~LoggedIn(c)
             THEN [call EXCEPT !.pc = "done", !.status = 302]
             ELSE IF CurrentUser(c) # <<>> /\ configured
             THEN [call EXCEPT !.pc = "sink"]
             ELSE [call EXCEPT !.pc = "pop"]]
  /\ WorkerUnchanged
  /\ UNCHANGED <<users, rooms, room_order, private_messages, session, next_id>>

\* requests.post returns or raises: the Telegram API has answered, or the
\* connection has failed.  The call has no timeout argument, so nothing
\* else ends it.
WorkerSinkAnswer(w, outcome) ==
  /\ workers[w].pc = "sink"
  /\ outcome \in SinkOutcomes \ {"unconfigured"}
  /\ workers' = [workers EXCEPT ![w].pc = "pop",
                                ![w].error = IF SendTelegramMessage(outcome)
                                             THEN "" ELSE outcome]
  /\ WorkerUnchanged
  /\ UNCHANGED <<users, rooms, room_order, private_messages, session, next_id>>

\* The rest of logout: session.pop('username') and the redirect.
WorkerLogoutPop(w) ==
  /\ workers[w].pc = "pop"
  /\ session' = [session EXCEPT ![workers[w].client] = <<>>]
  /\ Done(w, 302, "")
  /\ WorkerUnchanged
  /\ UNCHANGED <<users, rooms, room_order, private_messages, next_id>>

\* Two clients of a process with sink credentials log in and post; their
\* logouts are served by two threads.  The steps of the threads are taken
\* when they can be; whether the sink answers is not up to the server.
NextSink ==
  \/ \E a \in GoogleAccounts, now \in Times : GoogleCallback(1, a, now)
  \/ \E a \in GithubAccounts, now \in Times : GithubCallback(2, a, now)
  \/ \E c \in Clients, now \in Times :
       SendMessage(c, general, <<"h">>, now) /\ IdsLeft(MaxIds)
  \/ Deliver
  \/ \E w \in Workers, c \in Clients : WorkerLogoutBegin(w, c, TRUE)
  \/ \E w \in Workers, o \in SinkOutcomes : WorkerSinkAnswer(w, o)
  \/ \E w \in Workers : WorkerLogoutPop(w)
  \/ \E w \in Workers : WorkerReturn(w)

SpecSink ==
  /\ Init
  /\ [][NextSink]_vars
  /\ \A w \in Workers : WF_vars(WorkerLogoutPop(w))
  /\ \A w \in Workers : WF_vars(WorkerReturn(w))
  /\ WF_vars(Deliver)

(***************************************************************************)
(* Identity rebinding.  src/app.py has no handler that changes a username; *)
(* rebind is modelled from the operation the specification describes:      *)
(* it fails with ConflictError when the new key is taken by a different    *)
(* identity, and otherwise moves the identity record to the new key,       *)
(* updates the session binding and rewrites the key and label of every     *)
(* message and private message that referenced the old key, in one step.   *)
(***************************************************************************)
RewriteKey(key, old_key, new_key) == IF key = old_key THEN new_key ELSE key

\* A room message with its author key and label rewritten.
RebindMessage(m, old_key, new_key) ==
  [m EXCEPT !.user_id = RewriteKey(@, old_key, new_key),
            !.nickname = RewriteKey(@, old_key, new_key)]

\* Mutant of RebindPrivateMessage: the recipient side is not rewritten.
RebindPrivateSenderOnly(m, old_key, new_key) ==
  [m EXCEPT !.from_user_id = RewriteKey(@, old_key, new_key),
            !.from_nickname = RewriteKey(@, old_key, new_key)]

\* A private message with its sender and recipient keys and labels rewritten.
RebindPrivateMessage(m, old_key, new_key) ==
  [m EXCEPT !.from_user_id = RewriteKey(@, old_key, new_key),
            !.from_nickname = RewriteKey(@, old_key, new_key),
            !.to_user_id = RewriteKey(@, old_key, new_key),
            !.to_nickname = RewriteKey(@, old_key, new_key)]

\* rebind(old_key, new_key), old_key being the identity of the session.
Rebind(c, new_key) ==
  /\ Begin
  /\ CurrentUser(c) # <<>>
  /\ LET old_key == session[c][1]
         req == [NoRequest EXCEPT !.new_key = new_key]
     IN IF new_key \in DOMAIN users /\ new_key # old_key
        THEN Answer(Response("rebind", c, session[c], req, 409,
                             "ConflictError"))
        ELSE /\ users' = [k \in (DOMAIN users \ {old_key}) \cup {new_key} |->
                            IF k = new_key THEN users[old_key] ELSE users[k]]
             /\ session' = [session EXCEPT ![c] = <<new_key>>]
             /\ rooms' =
                  [s \in DOMAIN rooms |->
                     [rooms[s] EXCEPT !.messages =
                        [i \in 1..Len(rooms[s].messages) |->
                           RebindMessage(rooms[s].messages[i],
                                         old_key, new_key)]]]
             /\ private_messages' =
                  [i \in 1..Len(private_messages) |->
                     RebindPrivateMessage(private_messages[i],
                                          old_key, new_key)]
             /\ resp' = Response("rebind", c, session[c], req, 200, "")
             /\ UNCHANGED <<room_order, next_id>>

\* The usernames rebind requests ask for: that of each principal and one
\* no login creates.
RebindKeys == {<<"a","l">>, <<"b","o">>, <<"c","y">>}

NextRebind ==
  \/ \E a \in GoogleAccounts, now \in Times : GoogleCallback(1, a, now)
  \/ \E a \in GithubAccounts, now \in Times : GithubCallback(2, a, now)
  \/ \E c \in Clients, now \in Times :
       SendMessage(c, general, <<" ","h">>, now) /\ IdsLeft(MaxIds)
  \/ \E c \in Clients, u \in RebindKeys, now \in Times :
       SendPrivateMessage(c, u, <<"h">>, now) /\ IdsLeft(MaxIds)
  \/ \E c \in Clients, k \in RebindKeys : Rebind(c, k)
  \/ Deliver

SpecRebind == Init /\ [][NextRebind]_vars

(***************************************************************************)
(* One room filled past the window of get_messages: one client logs in,    *)
(* posts to the seeded room, deletes its second message and reads the      *)
(* room and an unknown room.                                               *)
(***************************************************************************)
NextRoomWindow ==
  \/ \E a \in GoogleAccounts, now \in Times : GoogleCallback(1, a, now)
  \/ \E r \in {general, <<"z">>} : GetMessages(1, r)
  \/ \E now \in Times :
       SendMessage(1, general, <<" ","h">>, now) /\ IdsLeft(MaxPreload)
  \/ DeleteMessage(1, general, 2)
  \/ Deliver

SpecRoomWindow == Init /\ [][NextRoomWindow]_vars

(***************************************************************************)
(* The private-message list filled past the window of                      *)
(* get_private_messages.  Two clients log in and send on a fixed schedule  *)
(* keyed by the id the message will get: who sends, to whom, and what      *)
(* datetime.utcnow() reads (the wall clock is not monotone).  Both        *)
(* clients read their lists at any point.                                  *)
(***************************************************************************)
WindowSender(id) == IF id % 7 = 0 THEN 2 ELSE 1

WindowRecipient(id) == IF id % 2 = 0 THEN <<"b","o">> ELSE <<"a","l">>

WindowClock(id) == ((id * 3) % 5) + 1

NextPrivateWindow ==
  \/ \E a \in GoogleAccounts, now \in Times : GoogleCallback(1, a, now)
  \/ \E a \in GithubAccounts, now \in Times : GithubCallback(2, a, now)
  \/ /\ SendPrivateMessage(WindowSender(next_id), WindowRecipient(next_id),
                           <<"h">>, WindowClock(next_id))
     /\ IdsLeft(MaxPreload)
  \/ \E c \in Clients : GetPrivateMessages(c)
  \/ Deliver

SpecPrivateWindow == Init /\ [][NextPrivateWindow]_vars

(***************************************************************************)
(* The identity registry alone, with principals whose usernames collide:   *)
(* a GitHub login 'al', a Google address al@..., and a Google address      *)
(* al_7@..., the suffixed key of the Google principal with id '7'.         *)
(***************************************************************************)
RegistryGoogleAccounts ==
  {[id |-> <<"7">>, username |-> <<"a","l">>],
   [id |-> <<"9">>, username |-> <<"a","l","_","7">>]}

RegistryGithubAccounts == {[id |-> <<"8">>, username |-> <<"a","l">>]}

NextRegistry ==
  \/ \E c \in Clients, a \in RegistryGoogleAccounts, now \in Times :
       GoogleCallback(c, a, now)
  \/ \E c \in Clients, a \in RegistryGithubAccounts, now \in Times :
       GithubCallback(c, a, now)
  \/ \E c \in Clients : Logout(c, "unconfigured")
  \/ \E c \in Clients : GetRooms(c)
  \/ Deliver

SpecRegistry == Init /\ [][NextRegistry]_vars

(***************************************************************************)
(* Posting alone: two clients log in and post, at two readings of the      *)
(* clock, texts that are empty, blank or not, to a missing, a known and an *)
(* unknown room id.                                                        *)
(***************************************************************************)
PostTexts == {<<>>, <<" ">>, <<" ","h">>}

PostRoomIds == {<<>>, general, <<"z">>}

PostTimes == {1, 2}

NextPost ==
  \/ \E a \in GoogleAccounts : GoogleCallback(1, a, 1)
  \/ \E a \in GithubAccounts : GithubCallback(2, a, 1)
  \/ \E c \in Clients, r \in PostRoomIds, t \in PostTexts, now \in PostTimes :
       SendMessage(c, r, t, now) /\ IdsLeft(MaxIds)
  \/ Deliver

SpecPost == Init /\ [][NextPost]_vars

(***************************************************************************)
(* Editing alone: two clients log in, post to the seeded rooms at one      *)
(* reading of the clock and edit at a later one.                           *)
(***************************************************************************)
EditRoomIds == {general, random}

EditTexts == {<<"y"," ">>, <<"w">>}

NextEdit ==
  \/ \E a \in GoogleAccounts : GoogleCallback(1, a, 1)
  \/ \E a \in GithubAccounts : GithubCallback(2, a, 1)
  \/ \E c \in Clients, r \in EditRoomIds :
       SendMessage(c, r, <<" ","h">>, 1) /\ IdsLeft(MaxIds)
  \/ \E c \in Clients, r \in EditRoomIds, m \in MessageIds(MaxIds),
        t \in EditTexts : EditMessage(c, r, m, t, 2)
  \/ Deliver

SpecEdit == Init /\ [][NextEdit]_vars

(***************************************************************************)
(* Creating rooms and posting to them: two clients log in, create rooms    *)
(* from a name the derivation keeps a letter of and from one it strips     *)
(* whole, and post to the room ids the creates return.                     *)
(***************************************************************************)
UsableRoomNames == {<<"D"," ">>, <<"!","!","!">>}

NextUsable ==
  \/ \E a \in GoogleAccounts, now \in Times : GoogleCallback(1, a, now)
  \/ \E a \in GithubAccounts, now \in Times : GithubCallback(2, a, now)
  \/ \E c \in Clients, n \in UsableRoomNames : CreateRoom(c, n)
  \/ \E c \in Clients, r \in DOMAIN rooms, now \in Times :
       SendMessage(c, r, <<"h">>, now) /\ IdsLeft(MaxIds)
  \/ \E c \in Clients : GetRooms(c)
  \/ Deliver

SpecUsable == Init /\ [][NextUsable]_vars

(***************************************************************************)
(* Sessions and the registry: two clients log in as any of the principals  *)
(* whose usernames collide, log out, and use every operation that needs    *)
(* the current user.                                                       *)
(***************************************************************************)
NextSession ==
  \/ \E c \in Clients, a \in RegistryGoogleAccounts, now \in Times :
       GoogleCallback(c, a, now)
  \/ \E c \in Clients, a \in RegistryGithubAccounts, now \in Times :
       GithubCallback(c, a, now)
  \/ \E c \in Clients : Logout(c, "unconfigured")
  \/ \E c \in Clients, now \in Times :
       SendMessage(c, general, <<"h">>, now) /\ IdsLeft(MaxIds)
  \/ \E c \in Clients, now \in Times :
       EditMessage(c, general, 1, <<"w">>, now)
  \/ \E c \in Clients : DeleteMessage(c, general, 1)
  \/ \E c \in Clients : CreateRoom(c, <<"D"," ">>)
  \/ \E c \in Clients, now \in Times :
       SendPrivateMessage(c, <<"a","l">>, <<"h">>, now) /\ IdsLeft(MaxIds)
  \/ Deliver

SpecSession == Init /\ [][NextSession]_vars

(***************************************************************************)
(* Properties.  A step that handles a request takes resp from "none" to    *)
(* the response; unprimed variables are the stores before the request.     *)
(***************************************************************************)
Handles(op) == resp.op = "none" /\ resp'.op = op

\* A room's message sequence in a room store, empty for an unknown slug.
MessagesOf(store, slug) ==
  IF slug \in DOMAIN store THEN store[slug].messages ELSE <<>>

\* Leading and trailing whitespace removed, stated by positions.
Trimmed(s) ==
  LET keep == {i \in DOMAIN s : ~IsSpace(s[i])}
  IN IF keep = {} THEN <<>>
     ELSE SubSeq(s, CHOOSE i \in keep : \A j \in keep : i <= j,
                    CHOOSE i \in keep : \A j \in keep : j <= i)

\* C1 as stated: after a successful post, get_messages on the same slug
\* returns a sequence whose last element is the new message, with the
\* posted text, the poster's key as author and edited = false.
C1_PostThenGetRawText ==
  (/\ resp.op = "get_messages"
   /\ resp.status # 302
   /\ after_post # <<>>
   /\ resp.req.room_id = after_post[1].req.room_id)
  => /\ resp.status = 200
     /\ resp.messages # <<>>
     /\ LET m == resp.messages[Len(resp.messages)]
        IN /\ m.id = after_post[1].message[1].id
           /\ m.message = after_post[1].req.message
           /\ m.user_id = after_post[1].user[1]
           /\ m.edited = FALSE

\* C1 amended: the same, with the posted text trimmed of leading and
\* trailing whitespace as the text of the new message.
C1_PostThenGet ==
  (/\ resp.op = "get_messages"
   /\ resp.status # 302
   /\ after_post # <<>>
   /\ resp.req.room_id = after_post[1].req.room_id)
  => /\ resp.status = 200
     /\ resp.messages # <<>>
     /\ LET m == resp.messages[Len(resp.messages)]
        IN /\ m.id = after_post[1].message[1].id
           /\ m.message = Trimmed(after_post[1].req.message)
           /\ m.user_id = after_post[1].user[1]
           /\ m.edited = FALSE

\* C1 witness: a second client reads a room of two messages right after
\* the first client posted to it.
C1_Witness ==
  /\ resp.op = "get_messages"
  /\ resp.status = 200
  /\ after_post # <<>>
  /\ resp.req.room_id = after_post[1].req.room_id
  /\ resp.client # after_post[1].client
  /\ Len(resp.messages) = 2

\* C2 as stated: an edit by a non-author changes no message and is answered
\* not-found; an edit by the author with non-empty new text replaces the
\* text with the new text and sets edited = true.
C2_EditRawText ==
  [][(Handles("edit_message") /\ resp'.status # 302) =>
       LET req == resp'.req
           before == MessagesOf(rooms, req.room_id)
           after == MessagesOf(rooms', req.room_id)
       IN \A i \in DOMAIN before :
            before[i].id = req.message_id =>
              IF before[i].user_id # resp'.user[1]
              THEN /\ rooms' = rooms
                   /\ resp'.status = 404
              ELSE req.message # <<>> =>
                     /\ resp'.status = 200
                     /\ after[i].message = req.message
                     /\ after[i].edited = TRUE]_vars

\* C2 amended: an edit by a non-author changes no message and is answered
\* not-found when its new text is non-empty after trimming (the validation
\* error otherwise); an edit by the author whose new text is non-empty
\* after trimming replaces the text with the trimmed new text and sets
\* edited = true.
C2_Edit ==
  [][(Handles("edit_message") /\ resp'.status # 302) =>
       LET req == resp'.req
           before == MessagesOf(rooms, req.room_id)
           after == MessagesOf(rooms', req.room_id)
       IN \A i \in DOMAIN before :
            before[i].id = req.message_id =>
              IF before[i].user_id # resp'.user[1]
              THEN /\ rooms' = rooms
                   /\ private_messages' = private_messages
                   /\ resp'.status = IF Trimmed(req.message) = <<>>
                                     THEN 400 ELSE 404
              ELSE IF Trimmed(req.message) = <<>>
              THEN /\ rooms' = rooms
                   /\ resp'.status = 400
              ELSE /\ resp'.status = 200
                   /\ Len(after) = Len(before)
                   /\ after[i].id = req.message_id
                   /\ after[i].message = Trimmed(req.message)
                   /\ after[i].edited = TRUE]_vars

\* C2 witness: a non-author's edit of a message its author had edited
\* before is answered not-found.
C2_Witness ==
  /\ resp.op = "edit_message"
  /\ resp.status = 404
  /\ \E i \in DOMAIN MessagesOf(rooms, resp.req.room_id) :
       LET m == rooms[resp.req.room_id].messages[i]
       IN /\ m.id = resp.req.message_id
          /\ m.user_id # resp.user[1]
          /\ m.edited = TRUE

\* C5: 'general' and 'random' exist in every state, no step removes a
\* room, and index resolves a slug to itself when it names a room and to
\* 'general' otherwise.
C5_SeededRooms ==
  /\ [](general \in DOMAIN rooms /\ random \in DOMAIN rooms)
  /\ [][/\ DOMAIN rooms \subseteq DOMAIN rooms'
        /\ (Handles("index") /\ resp'.status = 200) =>
             resp'.room_id = IF resp'.req.room_id \in DOMAIN rooms
                             THEN resp'.req.room_id ELSE general]_vars

\* C5 witness: with a created room in the store, index answers a slug that
\* names no room with 'general'.
C5_Witness ==
  /\ resp.op = "index"
  /\ resp.status = 200
  /\ Len(room_order) > 2
  /\ resp.req.room_id \notin DOMAIN rooms
  /\ resp.room_id = general

ProtectedOps ==
  {"index", "logout", "get_messages", "send_message", "edit_message",
   "delete_message", "create_room", "get_rooms", "send_private_message",
   "get_private_messages"}

\* C10: a protected operation requested with no username in the session is
\* answered by a redirect to login, and users, rooms, message sequences
\* and private messages stay as they were.
C10_LoginRequired ==
  [][(/\ resp.op = "none"
      /\ resp'.op \in ProtectedOps
      /\ session[resp'.client] = <<>>) =>
       /\ resp'.status = 302
       /\ resp'.location = "login"
       /\ UNCHANGED <<users, rooms, room_order, private_messages>>]_vars

\* C10 witness: an unauthenticated post to an existing room, while another
\* client is logged in and messages exist, is redirected.
C10_Witness ==
  /\ resp.op = "send_message"
  /\ resp.status = 302
  /\ resp.location = "login"
  /\ session[resp.client] = <<>>
  /\ resp.req.room_id = general
  /\ Trimmed(resp.req.message) # <<>>
  /\ rooms[general].messages # <<>>


\* C9 as stated: a private send with text or recipient empty after trimming
\* is a validation error, one whose recipient key is no key of the registry
\* is not-found, both leaving the store unchanged; otherwise one entry with
\* the sender's key, the recipient key, the text and the private marker is
\* appended; every stored recipient is a known identity.
C9_PrivateSendRaw ==
  /\ [](\A i \in DOMAIN private_messages :
          private_messages[i].to_user_id \in DOMAIN users)
  /\ [][(Handles("send_private_message") /\ resp'.status # 302) =>
          LET req == resp'.req
          IN IF Trimmed(req.recipient) = <<>> \/ Trimmed(req.message) = <<>>
             THEN /\ resp'.status = 400
                  /\ private_messages' = private_messages
             ELSE IF req.recipient \notin DOMAIN users
             THEN /\ resp'.status = 404
                  /\ private_messages' = private_messages
             ELSE /\ resp'.status = 200
                  /\ Len(private_messages') = Len(private_messages) + 1
                  /\ SubSeq(private_messages', 1, Len(private_messages))
                       = private_messages
                  /\ LET m == private_messages'[Len(private_messages')]
                     IN /\ m.from_user_id = resp'.user[1]
                        /\ m.to_user_id = req.recipient
                        /\ m.message = req.message
                        /\ m.is_private = TRUE]_vars

\* C9 amended: the same, with the recipient key and the text being the
\* request's recipient and text trimmed of leading and trailing whitespace,
\* both in the registry lookup and in the appended entry.
C9_PrivateSend ==
  /\ [](\A i \in DOMAIN private_messages :
          private_messages[i].to_user_id \in DOMAIN users)
  /\ [][(Handles("send_private_message") /\ resp'.status # 302) =>
          LET req == resp'.req
          IN IF Trimmed(req.recipient) = <<>> \/ Trimmed(req.message) = <<>>
             THEN /\ resp'.status = 400
                  /\ private_messages' = private_messages
             ELSE IF Trimmed(req.recipient) \notin DOMAIN users
             THEN /\ resp'.status = 404
                  /\ private_messages' = private_messages
             ELSE /\ resp'.status = 200
                  /\ Len(private_messages') = Len(private_messages) + 1
                  /\ SubSeq(private_messages', 1, Len(private_messages))
                       = private_messages
                  /\ LET m == private_messages'[Len(private_messages')]
                     IN /\ m.from_user_id = resp'.user[1]
                        /\ m.to_user_id = Trimmed(req.recipient)
                        /\ m.message = Trimmed(req.message)
                        /\ m.is_private = TRUE]_vars

\* C9 witness: a second private message has been appended behind the
\* first, which another user sent.
C9_Witness ==
  /\ resp.op = "send_private_message"
  /\ resp.status = 200
  /\ Len(private_messages) = 2
  /\ private_messages[2] = resp.message[1]
  /\ private_messages[1].from_user_id # private_messages[2].from_user_id


\* s without its i-th element, the others in their order.
Without(s, i) ==
  [j \in 1..(Len(s) - 1) |-> IF j < i THEN s[j] ELSE s[j + 1]]

\* C3: a delete by the author removes exactly the message with the
\* requested id and keeps the others in their order; a delete that names a
\* room and an id, where the room holds no message with that id by the
\* requester, is answered not-found; no failing delete changes any room.
C3_Delete ==
  [][(Handles("delete_message") /\ resp'.status # 302) =>
       LET req == resp'.req
           before == MessagesOf(rooms, req.room_id)
           own == {i \in DOMAIN before :
                     /\ before[i].id = req.message_id
                     /\ before[i].user_id = resp'.user[1]}
       IN IF own # {}
          THEN /\ resp'.status = 200
               /\ Cardinality(own) = 1
               /\ \A i \in own :
                    rooms' = [rooms EXCEPT ![req.room_id].messages =
                                             Without(before, i)]
               /\ \A j \in DOMAIN rooms'[req.room_id].messages :
                    rooms'[req.room_id].messages[j].id # req.message_id
          ELSE /\ rooms' = rooms
               /\ resp'.status \in {400, 404}
               /\ (req.message_id # 0 /\ req.room_id # <<>>) =>
                    resp'.status = 404]_vars

\* C3 witness: the author deleted the middle one of three messages of a
\* room whose first and last message are by the other user.
C3_Witness ==
  /\ resp.op = "delete_message"
  /\ resp.status = 200
  /\ resp.req.message_id = 2
  /\ Len(rooms[general].messages) = 2
  /\ rooms[general].messages[1].id = 1
  /\ rooms[general].messages[2].id = 3
  /\ rooms[general].messages[1].user_id # resp.user[1]


\* The slug create_room derives from the room name of a request.
SlugOf(raw_name) == DeriveSlug(Strip(raw_name))

\* Two characters that are the same letter in different case.
CasePair(x, y) ==
  \/ \E i \in DOMAIN AsciiUpper : {x, y} = {AsciiUpper[i], AsciiLower[i]}
  \/ {x, y} = {CapitalSigma, SmallSigma}

\* Two names that differ only in letter case.
SameUpToCase(a, b) ==
  /\ Len(a) = Len(b)
  /\ \A i \in DOMAIN a : a[i] = b[i] \/ CasePair(a[i], b[i])

\* C4: names that differ only in letter case derive the same
\* slug, deriving from a slug yields that slug, and a create request whose
\* derived slug names a room fails with the duplicate error and changes
\* neither that room nor the set of rooms.
C4_SlugAnyCase ==
  /\ []((resp.op = "create_room" /\ resp.status # 302) =>
          /\ \A n \in Names :
               SameUpToCase(n, resp.req.room_name) =>
                 SlugOf(n) = SlugOf(resp.req.room_name)
          /\ SlugOf(SlugOf(resp.req.room_name)) = SlugOf(resp.req.room_name))
  /\ [][(/\ Handles("create_room")
         /\ resp'.status # 302
         /\ SlugOf(resp'.req.room_name) \in DOMAIN rooms) =>
          /\ resp'.status = 400
          /\ resp'.error = "Room already exists"
          /\ rooms' = rooms
          /\ room_order' = room_order]_vars

\* C7: get_messages on an unknown slug answers not-found; on a known slug
\* it returns exactly the last min(50, n) of the room's n messages, in the
\* room's order, oldest of the window first; no room changes.
C7_GetMessages ==
  [][(Handles("get_messages") /\ resp'.status # 302) =>
       LET slug == resp'.req.room_id
       IN /\ rooms' = rooms
          /\ room_order' = room_order
          /\ IF slug \notin DOMAIN rooms
             THEN resp'.status = 404 /\ resp'.error = "Room not found"
             ELSE LET all == rooms[slug].messages
                      n == Len(all)
                      k == IF n < 50 THEN n ELSE 50
                  IN /\ resp'.status = 200
                     /\ Len(resp'.messages) = k
                     /\ \A i \in 1..k : resp'.messages[i] = all[n - k + i]]_vars

\* C7 witness: a read of a room of more than 50 messages, one of them
\* deleted earlier, returned 50 messages ending with the newest.
C7_Witness ==
  /\ resp.op = "get_messages"
  /\ resp.status = 200
  /\ Len(rooms[general].messages) > 50
  /\ rooms[general].messages[2].id = 3
  /\ Len(resp.messages) = 50
  /\ resp.messages[50].id = next_id - 1

\* The ids of the private messages of a store that a user sent or received.
IdsInvolving(store, username) ==
  {store[i].id : i \in {j \in DOMAIN store :
                          \/ store[j].from_user_id = username
                          \/ store[j].to_user_id = username}}

\* C8: get_private_messages returns only stored messages the requester
\* sent or received, each once, in ascending order of timestamp, at most
\* 50 of them: all when there are at most 50, else 50 such that no message
\* left out is more recent than one returned; the store does not change.
C8_GetPrivateMessages ==
  [][(/\ Handles("get_private_messages")
      /\ resp'.status # 302
      /\ resp'.user # <<>>
      /\ resp'.user[1] \in DOMAIN users) =>
       LET me == resp'.user[1]
           res == resp'.messages
           mine == IdsInvolving(private_messages, me)
           got == {res[i].id : i \in DOMAIN res}
           k == IF Cardinality(mine) < 50 THEN Cardinality(mine) ELSE 50
       IN /\ resp'.status = 200
          /\ private_messages' = private_messages
          /\ Len(res) = k
          /\ Cardinality(got) = k
          /\ \A i \in DOMAIN res :
               /\ \E j \in DOMAIN private_messages : private_messages[j] = res[i]
               /\ res[i].from_user_id = me \/ res[i].to_user_id = me
          /\ \A i \in DOMAIN res : \A j \in DOMAIN res :
               i < j => res[i].timestamp <= res[j].timestamp
          /\ \A j \in DOMAIN private_messages :
               (private_messages[j].id \in mine \ got) =>
                 \A i \in DOMAIN res :
                   private_messages[j].timestamp <= res[i].timestamp]_vars

\* C8 witness: a read by a user with more than 50 private messages, in a
\* store that is not in timestamp order and holds messages of others,
\* returned 50 messages.
C8_Witness ==
  /\ resp.op = "get_private_messages"
  /\ resp.status = 200
  /\ resp.user # <<>>
  /\ Cardinality(IdsInvolving(private_messages, resp.user[1])) > 50
  /\ Cardinality(IdsInvolving(private_messages, resp.user[1]))
       < Len(private_messages)
  /\ \E i \in DOMAIN private_messages : \E j \in DOMAIN private_messages :
       i < j /\ private_messages[i].timestamp > private_messages[j].timestamp
  /\ Len(resp.messages) = 50

\* C6: a rebind to a key that no other identity holds succeeds: the
\* identity record moves to the new key, the session is bound to it, and
\* every room message and private message that referenced the old key as
\* author, sender or recipient reports the new key, nothing else of any
\* message changing; a rebind to a key another identity holds, such as one
\* an earlier rebind took, fails with the conflict error and changes
\* nothing.
C6_Rebind ==
  [][Handles("rebind") =>
       LET c == resp'.client
           old == resp'.user[1]
           new == resp'.req.new_key
           Moved(k) == IF k = old THEN new ELSE k
       IN IF new \in DOMAIN users /\ new # old
          THEN /\ resp'.status = 409
               /\ resp'.error = "ConflictError"
               /\ users' = users
               /\ rooms' = rooms
               /\ private_messages' = private_messages
               /\ session' = session
          ELSE /\ resp'.status = 200
               /\ session'[c] = <<new>>
               /\ \A d \in Clients \ {c} : session'[d] = session[d]
               /\ DOMAIN users' = (DOMAIN users \ {old}) \cup {new}
               /\ users'[new] = users[old]
               /\ DOMAIN rooms' = DOMAIN rooms
               /\ \A s \in DOMAIN rooms :
                    /\ Len(rooms'[s].messages) = Len(rooms[s].messages)
                    /\ \A i \in DOMAIN rooms[s].messages :
                         LET m == rooms[s].messages[i]
                             n == rooms'[s].messages[i]
                         IN /\ n.user_id = Moved(m.user_id)
                            /\ n.nickname = Moved(m.nickname)
                            /\ n.id = m.id
                            /\ n.message = m.message
               /\ Len(private_messages') = Len(private_messages)
               /\ \A i \in DOMAIN private_messages :
                    LET m == private_messages[i]
                        n == private_messages'[i]
                    IN /\ n.from_user_id = Moved(m.from_user_id)
                       /\ n.from_nickname = Moved(m.from_nickname)
                       /\ n.to_user_id = Moved(m.to_user_id)
                       /\ n.to_nickname = Moved(m.to_nickname)
                       /\ n.id = m.id
                       /\ n.message = m.message]_vars

\* C6 witness: the second client's rebind to a key is refused with the
\* conflict error while the first client holds that key, which only a
\* rebind gives, and a room message and a private message received report
\* that key.
C6_Witness ==
  /\ resp.op = "rebind"
  /\ resp.status = 409
  /\ resp.client = 2
  /\ resp.req.new_key = <<"c","y">>
  /\ session[1] = <<<<"c","y">>>>
  /\ \E i \in DOMAIN rooms[general].messages :
       rooms[general].messages[i].user_id = <<"c","y">>
  /\ \E i \in DOMAIN private_messages :
       /\ private_messages[i].to_user_id = <<"c","y">>
       /\ private_messages[i].from_user_id = resp.user[1]

\* What a caller sees of a response: everything but the echo of its request.
Signal(r) == [r EXCEPT !.req = NoRequest]

\* The error responses an operation can give a client, without the request.
ErrorSignals(op, c) ==
  {Response(op, c, session[c], NoRequest, status, error) :
     status \in {400, 404, 500},
     error \in {"Message ID, new text, and room ID are required",
                "Message ID and room ID are required",
                "Room not found",
                "Message not found or not authorized",
                "TypeError"}}

\* The message ids that are not in a room: drawn ones and the next one.
IdsNotIn(slug) ==
  {m \in 1..next_id :
     \A i \in DOMAIN MessagesOf(rooms, slug) : rooms[slug].messages[i].id # m}

\* The request of a step names a message of its room that the requester
\* did not write.
OnMessageOfAnother ==
  /\ resp'.status # 302
  /\ resp'.req.room_id \in DOMAIN rooms
  /\ \E i \in DOMAIN MessagesOf(rooms, resp'.req.room_id) :
       rooms[resp'.req.room_id].messages[i].id = resp'.req.message_id
  /\ \A i \in DOMAIN MessagesOf(rooms, resp'.req.room_id) :
       rooms[resp'.req.room_id].messages[i].id = resp'.req.message_id =>
         rooms[resp'.req.room_id].messages[i].user_id # resp'.user[1]

\* C11: what an edit or a delete answers a requester who names a message
\* of another author is what the same request, by the same client on the
\* same room with the same text, is answered when it names an id that is
\* not in the room; neither changes a room.
C11_NotFoundOrNotAuthorized ==
  /\ [][(Handles("edit_message") /\ OnMessageOfAnother) =>
          /\ rooms' = rooms
          /\ Signal(resp') \in ErrorSignals("edit_message", resp'.client)
          /\ \A o \in ErrorSignals("edit_message", resp'.client) :
               Signal(resp') = o =>
                 \A r \in DOMAIN rooms, m \in IdsNotIn(resp'.req.room_id),
                    t \in NewTexts, c \in Clients :
                   (/\ r = resp'.req.room_id
                    /\ t = resp'.req.message
                    /\ c = resp'.client) =>
                     ENABLED (/\ \E now \in Times :
                                   EditMessage(c, r, m, t, now)
                              /\ Signal(resp') = o
                              /\ rooms' = rooms)]_vars
  /\ [][(Handles("delete_message") /\ OnMessageOfAnother) =>
          /\ rooms' = rooms
          /\ Signal(resp') \in ErrorSignals("delete_message", resp'.client)
          /\ \A o \in ErrorSignals("delete_message", resp'.client) :
               Signal(resp') = o =>
                 \A r \in DOMAIN rooms, m \in IdsNotIn(resp'.req.room_id),
                    c \in Clients :
                   (r = resp'.req.room_id /\ c = resp'.client) =>
                     ENABLED (/\ DeleteMessage(c, r, m)
                              /\ Signal(resp') = o
                              /\ rooms' = rooms)]_vars

\* C11 witness: a delete that names a message of another author has been
\* answered with the signal of a missing message.
C11_Witness ==
  /\ resp.op = "delete_message"
  /\ resp.status = 404
  /\ resp.error = "Message not found or not authorized"
  /\ \E i \in DOMAIN MessagesOf(rooms, resp.req.room_id) :
       /\ rooms[resp.req.room_id].messages[i].id = resp.req.message_id
       /\ rooms[resp.req.room_id].messages[i].user_id # resp.user[1]

\* C12: whatever becomes of the sink call of a logout (no credentials, a
\* 200 answer, another answer, a network error), the logout is answered by
\* the redirect to login, the session binding of the client is removed,
\* users, rooms and private messages are unchanged, and the call has
\* returned a boolean, true only for a 200 answer; without credentials no
\* delivery is attempted.
C12_SinkFailure ==
  /\ [][(Handles("logout") /\ LoggedIn(resp'.client)) =>
          /\ resp'.status = 302
          /\ resp'.location = "login"
          /\ session' = [session EXCEPT ![resp'.client] = <<>>]
          /\ users' = users
          /\ rooms' = rooms
          /\ room_order' = room_order
          /\ private_messages' = private_messages
          /\ resp'.sink \in SinkOutcomes
          /\ resp'.delivered \in BOOLEAN
          /\ resp'.delivered <=> resp'.sink = "ok"
          /\ resp'.sink = "unconfigured" => ~resp'.attempted]_vars
  /\ [](resp.op # "logout" => resp.sink = "none")

\* C12 witness: a logout whose sink call met a network error has removed
\* the session binding of a client that had posted.
C12_Witness ==
  /\ resp.op = "logout"
  /\ resp.sink = "exception"
  /\ resp.attempted
  /\ ~resp.delivered
  /\ session[resp.client] = <<>>
  /\ \E i \in DOMAIN rooms[general].messages :
       rooms[general].messages[i].user_id = resp.user[1]

\* C13: every delete a request thread completes removes from the room the
\* message whose id it requested and no other, whatever other posts and
\* deletes on the room run at the same time: it is answered 200 or the
\* not-found signal, and a 200 leaves the room's sequence as it was without
\* one message, which has the requested id.
C13_AtomicDelete ==
  [][\A w \in Workers :
       (workers[w].pc = "pop" /\ workers'[w].pc = "done") =>
         LET before == rooms[workers[w].room_id].messages
         IN /\ workers'[w].status = 200
            /\ \E i \in DOMAIN before :
                 /\ before[i].id = workers[w].message_id
                 /\ rooms' = [rooms EXCEPT ![workers[w].room_id].messages =
                                             Without(before, i)]]_vars

\* C14: in every state, also one reached by callbacks of one principal
\* served at the same time, users holds at most one record per pair of
\* provider and provider-issued id.
C14_OneRecordPerPrincipal ==
  \A u1 \in DOMAIN users : \A u2 \in DOMAIN users :
    (/\ users[u1].provider = users[u2].provider
     /\ users[u1].provider_id = users[u2].provider_id) => u1 = u2

\* C16: a create request that succeeds, also one served at the same time
\* as another for the same slug, adds a room under a slug that named no
\* room, and replaces no room: name, creator and messages of every room
\* stay as they are.
C16_CreateOnce ==
  [][\A w \in Workers :
       (/\ workers[w].pc = "write"
        /\ workers'[w].pc = "done"
        /\ workers'[w].status = 200) =>
         /\ workers[w].key \notin DOMAIN rooms
         /\ \A s \in DOMAIN rooms : rooms'[s] = rooms[s]]_vars

\* C15: a callback that stores a record for a principal of whom users held
\* no record stores it under a key that was not a key of users, leaves
\* every record of users as it was, and makes users one record larger.
C15_FreshKey ==
  [][(/\ Handles("google_callback") \/ Handles("github_callback")
      /\ LET rec == users'[resp'.user[1]]
         IN \A u \in DOMAIN users :
              \/ users[u].provider # rec.provider
              \/ users[u].provider_id # rec.provider_id) =>
       /\ resp'.user[1] \notin DOMAIN users
       /\ \A u \in DOMAIN users : u \in DOMAIN users' /\ users'[u] = users[u]
       /\ Cardinality(DOMAIN users') = Cardinality(DOMAIN users) + 1]_vars

\* C17: a post whose text is empty after trimming or whose room id is
\* missing is answered 400, a post with both to a slug that names no room
\* is answered 404, and no post that fails changes a room or a record of
\* users, the last-seen of the requester included.
C17_PostFails ==
  [][(Handles("send_message") /\ resp'.status # 302) =>
       LET req == resp'.req
           invalid == Trimmed(req.message) = <<>> \/ req.room_id = <<>>
       IN /\ invalid => resp'.status = 400
          /\ (~invalid /\ req.room_id \notin DOMAIN rooms) => resp'.status = 404
          /\ (invalid \/ req.room_id \notin DOMAIN rooms) =>
               /\ resp'.error # ""
               /\ rooms' = rooms
               /\ room_order' = room_order
               /\ users' = users]_vars

\* C17 witness: a post of a blank text to a room that holds a message is
\* refused, the requester's last-seen being the first reading of the clock.
C17_Witness ==
  /\ resp.op = "send_message"
  /\ resp.status = 400
  /\ resp.req.message = <<" ">>
  /\ resp.req.room_id = general
  /\ rooms[general].messages # <<>>
  /\ users[resp.user[1]].last_seen = 1

\* C18: a successful edit changes one message of the room it names, at its
\* place: that message has the requested id and keeps id, author key,
\* label and creation timestamp; the sequence keeps its length and every
\* other message of every room is unchanged; and in every step a message
\* whose edited flag is true and that is still in its room has it true
\* afterwards.
C18_EditInPlace ==
  /\ [][(Handles("edit_message") /\ resp'.status = 200) =>
          LET req == resp'.req
              before == rooms[req.room_id].messages
              after == rooms'[req.room_id].messages
          IN /\ DOMAIN rooms' = DOMAIN rooms
             /\ room_order' = room_order
             /\ \A s \in DOMAIN rooms \ {req.room_id} : rooms'[s] = rooms[s]
             /\ rooms'[req.room_id].name = rooms[req.room_id].name
             /\ rooms'[req.room_id].created_by = rooms[req.room_id].created_by
             /\ Len(after) = Len(before)
             /\ \E i \in DOMAIN before :
                  /\ before[i].id = req.message_id
                  /\ after[i].id = before[i].id
                  /\ after[i].user_id = before[i].user_id
                  /\ after[i].nickname = before[i].nickname
                  /\ after[i].timestamp = before[i].timestamp
                  /\ after[i].edited = TRUE
                  /\ \A j \in DOMAIN before \ {i} : after[j] = before[j]]_vars
  /\ [][\A s \in DOMAIN rooms : \A i \in DOMAIN rooms[s].messages :
          rooms[s].messages[i].edited =>
            \A j \in DOMAIN MessagesOf(rooms', s) :
              rooms'[s].messages[j].id = rooms[s].messages[i].id =>
                rooms'[s].messages[j].edited]_vars

\* C18 witness: the first of two messages of a room has been edited, later
\* than it was posted, and is still the first; the second is an edited
\* message too.
C18_Witness ==
  /\ resp.op = "edit_message"
  /\ resp.status = 200
  /\ after_post = <<>>
  /\ Len(rooms[resp.req.room_id].messages) >= 2
  /\ rooms[resp.req.room_id].messages[1].id = resp.req.message_id
  /\ rooms[resp.req.room_id].messages[1].message = <<"w">>
  /\ rooms[resp.req.room_id].messages[1].timestamp = 1
  /\ rooms[resp.req.room_id].messages[1].edited_at = <<2>>
  /\ rooms[resp.req.room_id].messages[2].edited

\* C19: every step leaves the list of private messages as it is or adds
\* one entry behind the entries it has, which stay as they are; only a
\* private-message send that succeeds adds one, and an edit or a delete of
\* a room message changes nothing of the list, whatever id it names.
C19_AppendOnly ==
  [][/\ \/ private_messages' = private_messages
        \/ /\ Len(private_messages') = Len(private_messages) + 1
           /\ SubSeq(private_messages', 1, Len(private_messages))
                = private_messages
           /\ Handles("send_private_message")
           /\ resp'.status = 200
     /\ (Handles("edit_message") \/ Handles("delete_message")) =>
          private_messages' = private_messages]_vars

\* C19 witness: a delete request that names the id of a private message
\* the requester sent is answered not-found and the list, of two entries,
\* still holds that message.
C19_Witness ==
  /\ resp.op = "delete_message"
  /\ resp.status = 404
  /\ Len(private_messages) = 2
  /\ private_messages[1].id = resp.req.message_id
  /\ private_messages[1].from_user_id = resp.user[1]

\* C20: a create that succeeds returns a non-empty room id, no room has an
\* empty slug, and a post of a text that is non-empty after trimming to
\* the slug of a room succeeds.
C20_UsableRooms ==
  /\ [][(Handles("create_room") /\ resp'.status = 200) =>
          /\ resp'.room_id # <<>>
          /\ resp'.room_id \in DOMAIN rooms']_vars
  /\ [](\A s \in DOMAIN rooms : s # <<>>)
  /\ [][(/\ Handles("send_message")
         /\ resp'.status # 302
         /\ resp'.req.room_id \in DOMAIN rooms
         /\ Trimmed(resp'.req.message) # <<>>) =>
          resp'.status = 200]_vars

\* The operations that use the current user.
ActingOps ==
  {"send_message", "edit_message", "delete_message", "create_room",
   "send_private_message", "get_private_messages", "logout"}

\* C21: in every state each session that carries a username carries a key
\* of users, and no operation that uses the current user finds none: none
\* is answered with the error of a missing user, and a post, a create and
\* a private send whose fields are valid and whose target exists succeed.
C21_SessionBound ==
  /\ [](\A c \in Clients : session[c] # <<>> => session[c][1] \in DOMAIN users)
  /\ [][\A op \in ActingOps :
          (Handles(op) /\ resp'.status # 302) =>
            /\ resp'.user # <<>>
            /\ resp'.user[1] \in DOMAIN users
            /\ resp'.status # 500
            /\ resp'.error # "TypeError"
            /\ (op = "send_message" /\ resp'.req.room_id \in DOMAIN rooms
                  /\ Trimmed(resp'.req.message) # <<>>) => resp'.status = 200
            /\ (op = "send_private_message"
                  /\ Trimmed(resp'.req.recipient) \in DOMAIN users
                  /\ Trimmed(resp'.req.message) # <<>>) => resp'.status = 200
            /\ (op = "create_room"
                  /\ DeriveSlug(Trimmed(resp'.req.room_name)) \notin DOMAIN rooms
                  /\ Trimmed(resp'.req.room_name) # <<>>) => resp'.status = 200
       ]_vars

\* C21 witness: a post has succeeded for a client bound to a suffixed key
\* whose record is that of the principal who logged in last, while the
\* other client's session carries the same key.
C21_Witness ==
  /\ resp.op = "send_message"
  /\ resp.status = 200
  /\ resp.user = <<<<"a","l","_","7">>>>
  /\ users[resp.user[1]].provider_id = <<"7">>
  /\ \A c \in Clients : session[c] = resp.user
  /\ Cardinality(DOMAIN users) = 2

\* C22: a logout that has called the sink completes and clears the session
\* binding of its client, whether or not the sink answers; and the answer
\* of the sink changes no store and no session.
C22_LogoutCompletes ==
  /\ \A w \in Workers :
       (workers[w].pc = "sink") ~> (workers[w].pc = "done")
  /\ [][\A w \in Workers :
          (workers[w].pc = "pop" /\ workers'[w].pc = "done") =>
            session'[workers[w].client] = <<>>]_vars
  /\ [][\A w \in Workers :
          (workers[w].pc = "sink" /\ workers'[w].pc # "sink") =>
            UNCHANGED <<users, rooms, room_order, private_messages,
                        session>>]_vars

====
